---- MODULE Spec2Model ----
(***************************************************************************)
(* tracing-opentelemetry 0.32.1: the counting filter layer                 *)
(* (src/layer/filtered.rs), the context bridge (src/otel_context.rs) and   *)
(* the lifecycle layer they wrap, driven by threads that create, enter,    *)
(* exit, record into, link, deliver events to and close spans of one       *)
(* registry.                                                               *)
(*                                                                         *)
(* A handler is a sequence of atomic steps; a step is what the handler     *)
(* does between taking and releasing one span's extension lock (a critical *)
(* section: no other thread acts on that slot within it), or one call-out  *)
(* (the filter, the wrapped layer).  pc[t] is thread t's place             *)
(* in its handler, cur[t] the handler's locals.                            *)
(*                                                                         *)
(* The lifecycle layer (OpenTelemetryLayer, WithContext, OtelData) is not  *)
(* among the source files; its hooks are modelled from spec.md sections 3  *)
(* to 5.                                                                   *)
(***************************************************************************)
EXTENDS Integers, Sequences, FiniteSets, TLC

\* ---------------------------------------------------------------- bounds
\* spans the registry ever holds
MaxSpans == 2
\* operations other than creating, entering, leaving and closing a span
\* (events, records, bridge requests, follows-from declarations) ever started
MaxOps == 2
\* spans a thread is inside of at once
MaxDepth == 2
MaxCountSteps == 3

Threads == {"t1", "t2"}
NoThread == "nobody"
SpanIds == 1 .. MaxSpans
\* the two levels an event may have; the configured filter is a level filter
Levels == {"INFO", "TRACE"}
\* how an event names its span: an explicit parent id, the current span, none
Contextual == "contextual"
Root == "root"

\* opentelemetry::Context of no span: trace id 0, span id 0 (not valid)
InvalidCx == [trace |-> 0, span |-> 0]
IsValid(cx) == cx.trace # 0 /\ cx.span # 0

VARIABLES
    reg,        \* registry: span id -> "none" | "open" | "closing" | "removed"
    rparent,    \* registry: span id -> id of the parent span, 0 for none
    ext,        \* extension slot of a span: [count, otel], each <<>> or <<v>>
    lock,       \* per span: the thread holding its extension lock, or NoThread
    stack,      \* per thread: the spans it has entered, innermost last
    pc,         \* per thread: its place in the handler it runs
    cur,        \* per thread: the locals of that handler
    exported,   \* per span: the finished records handed to the exporter
    extracted,  \* per span: the contexts a separate layer got from the bridge
    bridgeRes,  \* the last get_otel_context call: its inputs and its result
    fflog,      \* per span: its last follows-from declaration and its outcome
    hist,       \* per span: history counters the properties are stated with
    idgen,      \* ids drawn from the tracer's id generator so far
    nops,       \* events, records, bridge requests, links and irregular closes so far
    deleg,      \* the last pass-through hook call and the wrapped layer's calls it made
    err,        \* the wrapped layer panicked in a follows-from declaration
    dropped,    \* the last event on_event found no span for: [kind, level]
    wide,       \* one span's counter at its full width: see WideCount
    fatal       \* on_close panicked: "Span not found, this is a bug"

vars == <<reg, rparent, ext, lock, stack, pc, cur, exported, extracted,
          bridgeRes, fflog, hist, idgen, nops, deleg, err, dropped, wide,
          fatal>>

\* ------------------------------------------------------------- data model
None == <<>>
Some(v) == <<v>>

EmptyExt == [count |-> None, otel |-> None]

IdleCur == [span |-> 0, level |-> "INFO", ticket |-> 0, other |-> 0,
            link |-> None]

\* span: the span asked for; cap: the dispatch had the capability; had: the
\* span had a state holder; res: what the call returned; built: the call
\* built the context; kept: the call left the extension slot as it was
\* via: the dispatch the call was given
NoBridge == [span |-> 0, cap |-> FALSE, had |-> FALSE, res |-> None,
             built |-> 0, kept |-> TRUE, via |-> "none"]

\* delivered: on_event calls that resolved to the span while it was open;
\* deliveredOk: those of them the filter approves; builds: how often the
\* context was built from the Builder; entered: the span was entered.
EmptyHist == [delivered |-> 0, deliveredOk |-> 0, builds |-> 0,
              entered |-> FALSE]

NoFollows == [follows |-> 0, how |-> "never"]

\* no event has been dropped for want of a span yet
NoEvent == [kind |-> "none", level |-> "INFO"]

\* no pass-through hook called yet
NoDeleg == [hook |-> "none", args |-> <<>>, calls |-> <<>>]

\* the hooks without an effect on the modelled state
PlainHooks == {"on_layer", "register_callsite", "enabled"}

\* ctx.span(id): the registry still holds the span (also while it closes)
Resolves(s) == s \in SpanIds /\ reg[s] \in {"open", "closing"}

\* ctx.lookup_current(): the innermost span the thread has entered
CurrentSpan(t) == IF stack[t] = <<>> THEN 0 ELSE stack[t][Len(stack[t])]

HolderCx(o) == [trace |-> o.trace, span |-> o.span]

InStack(s, t) == \E i \in 1 .. Len(stack[t]) : stack[t][i] = s

Max(S) == CHOOSE x \in S : \A y \in S : y <= x

\* ------------------------------------------- lifecycle layer (from spec.md)
\* The context on_enter attached on this thread: that of the innermost
\* entered span that has a state holder (spec.md 4.1, "caller-supplied
\* parent context").
CurrentCx(t) ==
    LET idx == {i \in 1 .. Len(stack[t]) : ext[stack[t][i]].otel # None}
    IN  IF idx = {} THEN InvalidCx
        ELSE HolderCx(ext[stack[t][Max(idx)]].otel[1])

\* NewBuilder with the parent context dropped: every span starts a trace
NewBuilderNoParent(parentCx, id) ==
    [state |-> "Builder", trace |-> id, span |-> id, parent |-> 0,
     attrs |-> <<>>, nattrs |-> 0, events |-> 0, links |-> {}]

\* on_new_span: a Builder with the declared parent context; the span id is
\* drawn from the id generator, the trace id is the parent's when there is
\* a valid parent and a new one otherwise.  No context is activated.
NewBuilder(parentCx, id) ==
    [state |-> "Builder",
     trace |-> IF IsValid(parentCx) THEN parentCx.trace ELSE id,
     span |-> id,
     parent |-> parentCx.span,
     attrs |-> <<>>,
     nattrs |-> 0,
     events |-> 0,
     links |-> {}]

\* Builder -> Context, a move-and-replace; a Context stays as it is.
Activate(o) == [o EXCEPT !.state = "Context"]

\* WithContext::with_activated_otel_context: finalize if needed and hand the
\* activated context to the callback; nothing is called without a holder.
\* built is 1 when this call had to build the context from the Builder.
WithActivatedOtelContext(otel) ==
    IF otel = None
    THEN [otel |-> None, cx |-> None, built |-> 0]
    ELSE [otel |-> Some(Activate(otel[1])),
          cx |-> Some(HolderCx(otel[1])),
          built |-> IF otel[1].state = "Builder" THEN 1 ELSE 0]

\* the finished record the exporter receives for a state holder
FinishedRecord(o) ==
    [trace |-> o.trace, span |-> o.span, parent |-> o.parent,
     attrs |-> o.attrs, nattrs |-> o.nattrs, events |-> o.events,
     links |-> o.links]

\* ------------------------------------------------- src/otel_context.rs
\* GetOtelContext handing out the ambient context (that of no span) instead
\* of the one its callback received
GetOtelContextAmbient(otel, hasCap) ==
    IF hasCap
    THEN [WithActivatedOtelContext(otel) EXCEPT
             !.cx = IF @ = None THEN None ELSE Some(InvalidCx)]
    ELSE [otel |-> otel, cx |-> None, built |-> 0]

\* GetOtelContext without the downcast: the callback runs for any dispatch
GetOtelContextAnyDispatch(otel, hasCap) == WithActivatedOtelContext(otel)

\* GetOtelContext whose callback does not store the context it is given
GetOtelContextNoAssign(otel, hasCap) ==
    IF hasCap
    THEN [WithActivatedOtelContext(otel) EXCEPT !.cx = None]
    ELSE [otel |-> otel, cx |-> None, built |-> 0]

\* get_otel_context(extensions, dispatch): hasCap is whether the dispatch
\* downcasts to WithContext.
GetOtelContext(otel, hasCap) ==
    IF hasCap
    THEN WithActivatedOtelContext(otel)
    ELSE [otel |-> otel, cx |-> None, built |-> 0]

\* --------------------------------------------------- src/layer/filtered.rs
\* the types a layer may be asked for through downcast_raw
TypeIds == {"FilteredOpenTelemetryLayer", "OpenTelemetryLayer",
            "WithContext", "Other"}

\* the dispatches get_otel_context may be given: the pipeline with the
\* filter layer around the lifecycle layer, a pipeline with the lifecycle
\* layer alone, a pipeline without either
Dispatches == {"filtered", "bare", "foreign"}

\* the lifecycle layer's downcast_raw (spec.md 4.3): itself for its own
\* type, the registered bridge capability for WithContext
InnerDowncastRaw(id) ==
    CASE id = "OpenTelemetryLayer" -> Some("inner")
      [] id = "WithContext" -> Some("get_context")
      [] OTHER -> None

\* DowncastRaw that answers for its own type only
DowncastRawOwnOnly(id) ==
    IF id = "FilteredOpenTelemetryLayer" THEN Some("self") ELSE None

\* downcast_raw, lines 168-175
DowncastRaw(id) ==
    IF id = "FilteredOpenTelemetryLayer"
    THEN Some("self")
    ELSE InnerDowncastRaw(id)

\* dispatch.downcast_ref::<WithContext>() (otel_context.rs 57) finds the
\* capability
HasCapability(d) ==
    CASE d = "filtered" -> DowncastRaw("WithContext") # None
      [] d = "bare" -> InnerDowncastRaw("WithContext") # None
      [] d = "foreign" -> FALSE

\* PassThrough with on_record swallowed: the wrapped layer is not called
PassThroughDropsRecord(hook, args) ==
    IF hook = "on_record" THEN <<>>
    ELSE <<[hook |-> hook, args |-> args]>>

\* on_layer, register_callsite, enabled, on_new_span, on_record,
\* on_follows_from, on_enter, on_exit, on_id_change (lines 69-94, 125-131,
\* 164-166): the calls made on self.inner, in order
PassThrough(hook, args) == <<[hook |-> hook, args |-> args]>>

\* how often a hook call reaches the same hook of the wrapped layer with
\* the same arguments
Times(hook, args) ==
    Cardinality({i \in 1 .. Len(PassThrough(hook, args)) :
                    PassThrough(hook, args)[i] = [hook |-> hook, args |-> args]})

\* what deleg keeps of a hook call
CallOf(hook, args) ==
    [hook |-> hook, args |-> args, calls |-> PassThrough(hook, args)]

\* CountEvent that inserts EventCount(1) whether or not a counter is there
CountEventInsertOnly(count) == Some(1)

\* on_event, lines 109-113: count.0 += 1, or insert EventCount(1).  The
\* counter is a u32; at most MaxOps events are delivered here, so the
\* addition stays far below the width where it would overflow.
CountEvent(count) ==
    IF count # None
    THEN Some(count[1] + 1)
    ELSE Some(1)

\* TakeCount whose default for a span without a counter is 1
TakeCountFromOne(count) == IF count = None THEN 1 ELSE count[1]

\* on_close, line 137: extensions.remove::<EventCount>().map_or(0, ..)
TakeCount(count) == IF count = None THEN 0 ELSE count[1]

\* InjectCount that makes a Builder to carry the attribute when the span
\* has no state holder
InjectCountCreatesHolder(otel, count) ==
    IF otel = None
    THEN Some([state |-> "Builder", trace |-> 0, span |-> 0, parent |-> 0,
               attrs |-> <<count>>, nattrs |-> 0, events |-> 0,
               links |-> {}])
    ELSE Some([otel[1] EXCEPT !.attrs = Append(@, count)])

\* InjectCount that activates a pending span to set the attribute on it
InjectCountActivates(otel, count) ==
    IF otel = None THEN None
    ELSE Some([otel[1] EXCEPT !.state = "Context",
                              !.attrs = Append(@, count)])

\* InjectCount that turns a live Context back into a Builder to push the
\* attribute onto a builder's list
InjectCountRebuild(otel, count) ==
    IF otel = None THEN None
    ELSE Some([otel[1] EXCEPT !.state = "Builder",
                              !.attrs = Append(@, count)])

\* on_close, lines 138-156: the count as the reserved attribute of whichever
\* variant the holder has; no holder, nothing written.
InjectCount(otel, count) ==
    IF otel = None THEN None
    ELSE CASE otel[1].state = "Builder" ->
                Some([otel[1] EXCEPT !.attrs = Append(@, count)])
           [] otel[1].state = "Context" ->
                Some([otel[1] EXCEPT !.attrs = Append(@, count)])

\* the configured filter (field filter: F), here a level filter
FilterEnabled(level) == level = "INFO"

\* the lifecycle layer's on_event: the event is recorded as a span event on
\* the holder, pending or live; no holder, nothing recorded
InnerOnEvent(otel) ==
    IF otel = None THEN None
    ELSE Some([otel[1] EXCEPT !.events = @ + 1])

\* on_event, lines 119-122: the wrapped on_event runs if the filter approves
FilteredForward(level, otel) ==
    IF FilterEnabled(level) THEN InnerOnEvent(otel) ELSE otel

\* OnEventNext with the filter evaluated first and the count after it
OnEventNextFilterFirst(at) ==
    CASE at = "ev_resolve" -> "ev_filter"
      [] at = "ev_filter" -> "ev_count"
      [] at = "ev_count" -> "idle"

\* HoldsLockAt with the guard of line 107 living to the end of on_event
HoldsLockAtAcrossFilter(at) == at = "ev_filter"

\* HoldsLockAt without the drop of line 158: the extensions guard lives to
\* the end of on_close
HoldsLockAtNoDrop(at) == at = "cl_inner"

\* whether the filter layer still holds the span's extension lock at a
\* place of a handler: the block of lines 106-114 has ended before the
\* filter runs (line 119), drop(extensions) of line 158 comes before
\* self.inner.on_close (line 161)
HoldsLockAt(at) == FALSE

\* on_event's order, lines 97-122: the span is resolved, then counted, then
\* the filter is evaluated (and the event forwarded), then it returns.
OnEventNext(at) ==
    CASE at = "ev_resolve" -> "ev_count"
      [] at = "ev_count" -> "ev_filter"
      [] at = "ev_filter" -> "idle"

\* EventSpan without the is_contextual() test of line 99: any event whose
\* explicit parent gives no span falls back to the thread's current span
EventSpanCurrentForAll(t, kind, id) ==
    IF kind = "explicit" /\ Resolves(id) THEN id ELSE CurrentSpan(t)

\* on_event, lines 97-102: the span an event belongs to, 0 for none.  kind
\* is how the event names its span, id its explicit parent id.
EventSpan(t, kind, id) ==
    CASE kind = "explicit" -> IF Resolves(id) THEN id ELSE 0
      [] kind = Contextual -> CurrentSpan(t)
      [] kind = Root -> 0

\* ------------------------------------------- the counter at full width
\* struct EventCount(u32), line 61.  A u32 is written here as two 16-bit
\* limbs <<low, high>>, an i64 as four, lowest first, in two's complement.
LimbBase == 65536
U32Max == <<LimbBase - 1, LimbBase - 1>>

\* count.0 += 1 (line 110) at the width of a u32.  At u32::MAX the addition
\* overflows: a build with overflow checks panics, one without wraps to 0.
U32Add1(c) ==
    IF c[1] < LimbBase - 1
    THEN {[panic |-> FALSE, value |-> <<c[1] + 1, c[2]>>]}
    ELSE IF c[2] < LimbBase - 1
    THEN {[panic |-> FALSE, value |-> <<0, c[2] + 1>>]}
    ELSE {[panic |-> TRUE, value |-> c],
          [panic |-> FALSE, value |-> <<0, 0>>]}

\* on_event, lines 109-113, at full width: the outcomes of counting one
\* more event
CountEventU32(count) ==
    IF count = None
    THEN {[panic |-> FALSE, value |-> <<1, 0>>]}
    ELSE U32Add1(count[1])

\* on_close, line 137, at full width
TakeCountU32(count) == IF count = None THEN <<0, 0>> ELSE count[1]

\* I64FromU32 by way of an i32: the sign bit of the u32 is extended
I64FromU32SignExtended(c) ==
    LET fill == IF c[2] >= LimbBase \div 2 THEN LimbBase - 1 ELSE 0
    IN  <<c[1], c[2], fill, fill>>

\* on_close, line 141: Value::I64(i64::from(count)), a zero extension
I64FromU32(c) == <<c[1], c[2], 0, 0>>

\* the number of events counted, as a number of three limbs (it can pass
\* 2^32), and its successor
Succ3(k) ==
    IF k[1] < LimbBase - 1 THEN <<k[1] + 1, k[2], k[3]>>
    ELSE IF k[2] < LimbBase - 1 THEN <<0, k[2] + 1, k[3]>>
    ELSE <<0, 0, k[3] + 1>>

NoWide == [count |-> None, events |-> <<0, 0, 0>>, steps |-> 0,
           attr |-> None, panicked |-> FALSE]

\* limb values around the places where a carry or a sign bit matters
EdgeLimbs == {0, 1, LimbBase \div 2 - 1, LimbBase \div 2,
              LimbBase - 2, LimbBase - 1}

\* ------------------------------------------------------------------ Init
Init ==
    /\ reg = [s \in SpanIds |-> "none"]
    /\ rparent = [s \in SpanIds |-> 0]
    /\ ext = [s \in SpanIds |-> EmptyExt]
    /\ lock = [s \in SpanIds |-> NoThread]
    /\ stack = [t \in Threads |-> <<>>]
    /\ pc = [t \in Threads |-> "idle"]
    /\ cur = [t \in Threads |-> IdleCur]
    /\ exported = [s \in SpanIds |-> <<>>]
    /\ extracted = [s \in SpanIds |-> {}]
    /\ bridgeRes = NoBridge
    /\ fflog = [s \in SpanIds |-> NoFollows]
    /\ hist = [s \in SpanIds |-> EmptyHist]
    /\ idgen = 0
    /\ nops = 0
    /\ deleg = NoDeleg
    /\ err = FALSE
    /\ fatal = FALSE
    /\ wide = NoWide
    /\ dropped = NoEvent

\* ------------------------------------------------------- span creation
\* on_new_span (filtered.rs 84-86 delegates to the lifecycle layer): the
\* registry has stored the span, the layer installs its state holder.
OnNewSpan(t) ==
    /\ pc[t] = "idle"
    /\ \E s \in SpanIds :
        /\ reg[s] = "none"
        /\ \A r \in SpanIds : r < s => reg[r] # "none"
        /\ reg' = [reg EXCEPT ![s] = "open"]
        /\ rparent' = [rparent EXCEPT ![s] = CurrentSpan(t)]
        /\ LET n == Times("on_new_span", <<s>>)
           IN  /\ ext' = [ext EXCEPT ![s] =
                     [count |-> None,
                      otel |-> IF n = 0 THEN None
                               ELSE Some(NewBuilder(CurrentCx(t), idgen + n))]]
               /\ idgen' = idgen + n
        /\ deleg' = CallOf("on_new_span", <<s>>)
    /\ UNCHANGED <<stack, pc, cur, exported, extracted, bridgeRes,
                   fflog, hist, nops, err, lock, fatal, dropped, wide>>

\* ------------------------------------------------------- enter and exit
\* on_enter (filtered.rs 125-127 delegates): the lifecycle layer activates
\* the span's context; then the separate layer of tests/otel_context.rs
\* (CustomLayer::on_enter, 52-68) asks the bridge for it and keeps it.
OnEnter(t, s) ==
    /\ pc[t] = "idle"
    /\ s \in SpanIds /\ reg[s] = "open"
    /\ ~InStack(s, t)
    /\ Len(stack[t]) < MaxDepth
    /\ lock[s] = NoThread
    /\ deleg' = CallOf("on_enter", <<s>>)
    /\ LET act == IF Times("on_enter", <<s>>) = 0
                  THEN [otel |-> ext[s].otel, cx |-> None, built |-> 0]
                  ELSE WithActivatedOtelContext(ext[s].otel)
           got == GetOtelContext(act.otel, HasCapability("filtered"))
       IN  /\ ext' = [ext EXCEPT ![s].otel = got.otel]
           /\ extracted' = [extracted EXCEPT ![s] =
                 IF got.cx = None THEN @ ELSE @ \cup {got.cx[1]}]
           /\ hist' = [hist EXCEPT
                 ![s].builds = @ + act.built + got.built,
                 ![s].entered = TRUE]
    /\ stack' = [stack EXCEPT ![t] = Append(@, s)]
    /\ UNCHANGED <<reg, rparent, pc, cur, exported, bridgeRes, fflog,
                   idgen, nops, err, lock, fatal, dropped, wide>>

\* on_exit (filtered.rs 129-131 delegates): the innermost span is left
OnExit(t) ==
    /\ pc[t] = "idle"
    /\ stack[t] # <<>>
    /\ stack' = [stack EXCEPT ![t] = SubSeq(@, 1, Len(@) - 1)]
    /\ deleg' = CallOf("on_exit", <<CurrentSpan(t)>>)
    /\ UNCHANGED <<reg, rparent, ext, pc, cur, exported, extracted,
                   bridgeRes, fflog, hist, idgen, nops, err, lock, fatal, dropped, wide>>

\* on_record (filtered.rs 88-90 delegates): one more attribute on the
\* holder, pending or live
OnRecord(t, s) ==
    /\ pc[t] = "idle"
    /\ s \in SpanIds /\ reg[s] = "open"
    /\ nops < MaxOps
    /\ nops' = nops + 1
    /\ ext[s].otel # None
    /\ lock[s] = NoThread
    /\ ext' = [ext EXCEPT ![s].otel =
                 Some([@[1] EXCEPT !.nattrs = @ + Times("on_record", <<s>>)])]
    /\ deleg' = CallOf("on_record", <<s>>)
    /\ UNCHANGED <<reg, rparent, stack, pc, cur, exported, extracted,
                   bridgeRes, fflog, hist, idgen, err, lock, fatal, dropped, wide>>

\* a separate observer calls get_otel_context on a span it resolved, with
\* dispatch d
BridgeRequest(t, s, d) ==
    /\ pc[t] = "idle"
    /\ Resolves(s)
    /\ lock[s] = NoThread
    /\ nops < MaxOps
    /\ nops' = nops + 1
    /\ LET got == GetOtelContext(ext[s].otel, HasCapability(d))
       IN  /\ ext' = [ext EXCEPT ![s].otel = got.otel]
           /\ bridgeRes' = [span |-> s, cap |-> HasCapability(d), via |-> d,
                            had |-> ext[s].otel # None, res |-> got.cx,
                            built |-> got.built,
                            kept |-> got.otel = ext[s].otel]
           /\ extracted' = [extracted EXCEPT ![s] =
                 IF got.cx = None THEN @ ELSE @ \cup {got.cx[1]}]
           /\ hist' = [hist EXCEPT
                 ![s].builds = @ + got.built]
    /\ UNCHANGED <<reg, rparent, stack, pc, cur, exported, fflog,
                   idgen, err, deleg, lock, fatal, dropped, wide>>

\* on_layer, register_callsite, enabled (filtered.rs 69-82): answered by the
\* wrapped layer, no span involved
OnPlainHook(t, hook) ==
    /\ pc[t] = "idle"
    /\ hook \in PlainHooks
    /\ nops < MaxOps
    /\ nops' = nops + 1
    /\ deleg' = CallOf(hook, <<>>)
    /\ UNCHANGED <<reg, rparent, ext, stack, pc, cur, exported, extracted,
                   bridgeRes, fflog, hist, idgen, err, lock, fatal, dropped, wide>>

\* on_id_change (filtered.rs 164-166): the registry of this pipeline never
\* changes an id, the hook is called with the id it had
OnIdChange(t, s) ==
    /\ pc[t] = "idle"
    /\ s \in SpanIds /\ reg[s] = "open"
    /\ nops < MaxOps
    /\ nops' = nops + 1
    /\ deleg' = CallOf("on_id_change", <<s, s>>)
    /\ UNCHANGED <<reg, rparent, ext, stack, pc, cur, exported, extracted,
                   bridgeRes, fflog, hist, idgen, err, lock, fatal, dropped, wide>>

\* ---------------------------------------------------------------- events
\* on_event, lines 97-104: the event's span is looked up; without one the
\* handler returns.  kind, id and level are the event's.
OnEventResolve(t, kind, id, level) ==
    /\ pc[t] = "idle"
    /\ nops < MaxOps
    /\ nops' = nops + 1
    /\ kind = "explicit" => reg[id] # "none"
    /\ LET s == EventSpan(t, kind, id)
       IN  IF s = 0
           THEN /\ dropped' = [kind |-> kind, level |-> level]
                /\ UNCHANGED <<pc, cur, hist>>
           ELSE /\ UNCHANGED dropped
                /\ pc' = [pc EXCEPT ![t] =
                           OnEventNext("ev_resolve")]
                /\ cur' = [cur EXCEPT ![t] =
                           [IdleCur EXCEPT !.span = s, !.level = level]]
                /\ hist' = [hist EXCEPT
                      ![s].delivered =
                          IF reg[s] = "open" THEN @ + 1 ELSE @,
                      ![s].deliveredOk =
                          IF reg[s] = "open" /\ FilterEnabled(level)
                          THEN @ + 1 ELSE @]
    /\ UNCHANGED <<reg, rparent, ext, stack, exported, extracted,
                   bridgeRes, fflog, idgen, err, deleg, lock, fatal, wide>>

\* on_event, lines 106-116: under the span's extension lock the counter is
\* incremented or inserted; the lock and the span reference are dropped.
\* A span the registry has removed meanwhile has its slot cleared as soon as
\* this reference is dropped.
OnEventCount(t) ==
    /\ pc[t] = "ev_count"
    /\ LET s == cur[t].span
           c == CountEvent(ext[s].count)
       IN  /\ lock[s] = NoThread
           /\ ext' = IF reg[s] = "removed" THEN ext
                     ELSE [ext EXCEPT ![s].count = c]
           /\ cur' = [cur EXCEPT ![t].ticket = c[1]]
           /\ lock' = [lock EXCEPT ![s] =
                 IF HoldsLockAt(OnEventNext("ev_count")) THEN t ELSE NoThread]
    /\ pc' = [pc EXCEPT ![t] = OnEventNext("ev_count")]
    /\ UNCHANGED <<reg, rparent, stack, exported, extracted, bridgeRes,
                   fflog, hist, idgen, nops, err, deleg, fatal, dropped, wide>>

\* on_event, lines 119-122: no lock held, the filter is evaluated; if it
\* approves, self.inner.on_event runs: the lifecycle layer looks the span up
\* again and records the event on its holder under the extension lock.
OnEventFilter(t) ==
    /\ pc[t] = "ev_filter"
    /\ LET s == cur[t].span
           nxt == OnEventNext("ev_filter")
       IN  /\ (FilterEnabled(cur[t].level) /\ Resolves(s))
                  => lock[s] = NoThread
           /\ ext' = IF Resolves(s)
                     THEN [ext EXCEPT ![s].otel =
                             FilteredForward(cur[t].level, @)]
                     ELSE ext
           /\ lock' = [lock EXCEPT ![s] = IF @ = t THEN NoThread ELSE @]
           /\ pc' = [pc EXCEPT ![t] = nxt]
           /\ cur' = [cur EXCEPT ![t] = IF nxt = "idle" THEN IdleCur ELSE @]
    /\ UNCHANGED <<reg, rparent, stack, exported, extracted, bridgeRes,
                   fflog, hist, idgen, nops, err, deleg, fatal, dropped, wide>>

\* ----------------------------------------------------------------- close
\* The registry closes a span when its last handle is dropped: no thread is
\* inside it, no thread is declaring a link for it through a handle, and it
\* has no live child (a child keeps its parent alive).
Closable(s) ==
    /\ s \in SpanIds /\ reg[s] = "open"
    /\ \A t \in Threads : ~InStack(s, t)
    /\ \A t \in Threads : ~(pc[t] = "ff_link" /\ cur[t].span = s)
    /\ \A c \in SpanIds : rparent[c] = s => reg[c] \in {"none", "removed"}

\* ExpectSpan that lets a span that is not found pass
ExpectSpanLenient(found) == FALSE

\* on_close, line 134: ctx.span(&id).expect("Span not found, this is a
\* bug") panics exactly when the registry does not resolve the id
ExpectSpan(found) == ~found

\* on_close, lines 133-159: the span is looked up (a panic if it is not
\* there); under its extension lock the counter is removed and written as
\* the reserved attribute; lock and reference are dropped.  The registry
\* has marked the span as closing when it calls the layers.
FilteredOnClose(t, s) ==
    /\ pc[t] = "idle"
    /\ IF ExpectSpan(Resolves(s))
       THEN /\ fatal' = TRUE
            /\ UNCHANGED <<reg, ext, lock, pc, cur>>
       ELSE /\ lock[s] = NoThread
            /\ LET count == TakeCount(ext[s].count)
               IN  ext' = [ext EXCEPT ![s] =
                         [count |-> None,
                          otel |-> InjectCount(ext[s].otel, count)]]
            /\ lock' = [lock EXCEPT ![s] =
                  IF HoldsLockAt("cl_inner") THEN t ELSE NoThread]
            /\ reg' = [reg EXCEPT ![s] = "closing"]
            /\ pc' = [pc EXCEPT ![t] = "cl_inner"]
            /\ cur' = [cur EXCEPT ![t] = [IdleCur EXCEPT !.span = s]]
            /\ UNCHANGED fatal
    /\ UNCHANGED <<rparent, stack, exported, extracted, bridgeRes,
                   fflog, hist, idgen, deleg, err, dropped, wide>>

\* InnerOnClose without line 161: close is not delegated, nothing exported
InnerOnCloseNotDelegated(t) ==
    /\ pc[t] = "cl_inner"
    /\ pc' = [pc EXCEPT ![t] = "cl_finish"]
    /\ UNCHANGED <<reg, rparent, ext, stack, cur, exported, extracted,
                   bridgeRes, fflog, hist, idgen, nops, err, deleg, lock, fatal, dropped, wide>>

\* on_close, line 161: self.inner.on_close.  The lifecycle layer takes the
\* state holder out of the slot under the lock and hands the finished
\* record to the exporter.
InnerOnClose(t) ==
    /\ pc[t] = "cl_inner"
    /\ lock[cur[t].span] = NoThread
    /\ LET s == cur[t].span
       IN  /\ exported' = [exported EXCEPT ![s] =
                 IF ext[s].otel = None THEN @
                 ELSE Append(@, FinishedRecord(ext[s].otel[1]))]
           /\ ext' = [ext EXCEPT ![s].otel = None]
    /\ pc' = [pc EXCEPT ![t] = "cl_finish"]
    /\ UNCHANGED <<reg, rparent, stack, cur, extracted, bridgeRes,
                   fflog, hist, idgen, nops, err, deleg, lock, fatal, dropped, wide>>

\* the layers after this one have run their on_close (the slow layer of
\* tests/follows_from.rs 68-76); the registry removes the span and its slot
CloseFinish(t) ==
    /\ pc[t] = "cl_finish"
    /\ LET s == cur[t].span
       IN  /\ reg' = [reg EXCEPT ![s] = "removed"]
           /\ ext' = [ext EXCEPT ![s] = EmptyExt]
    /\ pc' = [pc EXCEPT ![t] = "idle"]
    /\ cur' = [cur EXCEPT ![t] = IdleCur]
    /\ UNCHANGED <<rparent, stack, exported, extracted, bridgeRes,
                   fflog, hist, idgen, nops, err, deleg, lock, fatal, dropped, wide>>

\* the last handle of s is dropped on thread t
CloseSpan(t, s) == Closable(s) /\ FilteredOnClose(t, s) /\ UNCHANGED nops

\* on_close reaching the filter layer on thread t for a span the registry
\* still resolves and whose state holder is gone: a further close of a span
\* whose first close has already handed the holder to the exporter
OnCloseNoHolder(t, s) ==
    /\ Resolves(s) /\ ext[s].otel = None
    /\ nops < MaxOps
    /\ nops' = nops + 1
    /\ FilteredOnClose(t, s)

\* on_close called on thread t with an id the registry does not resolve,
\* against the subscriber's contract: the id of no span, or of a span
\* already removed
OnCloseUnresolved(t, s) ==
    /\ s \in SpanIds /\ ~Resolves(s)
    /\ nops < MaxOps
    /\ nops' = nops + 1
    /\ FilteredOnClose(t, s)

\* ---------------------------------------------------------- follows-from
\* InnerFollowsFrom that expects the followed span to be in the registry
InnerFollowsFromExpectSpan(a) ==
    IF Resolves(a) /\ ext[a].otel # None
    THEN [how |-> "found", link |-> Some(HolderCx(ext[a].otel[1])),
          panics |-> FALSE]
    ELSE [how |-> IF Resolves(a) THEN "noholder" ELSE "nospan",
          link |-> None, panics |-> ~Resolves(a)]

\* InnerFollowsFrom that links the empty context when the followed span or
\* its state holder is gone
InnerFollowsFromLinksEmpty(a) ==
    IF Resolves(a) /\ ext[a].otel # None
    THEN [how |-> "found", link |-> Some(HolderCx(ext[a].otel[1])),
          panics |-> FALSE]
    ELSE [how |-> "found", link |-> Some(InvalidCx), panics |-> FALSE]

\* InnerFollowsFrom that expects a resolved span to have its state holder
InnerFollowsFromExpectData(a) ==
    IF Resolves(a) /\ ext[a].otel # None
    THEN [how |-> "found", link |-> Some(HolderCx(ext[a].otel[1])),
          panics |-> FALSE]
    ELSE [how |-> IF Resolves(a) THEN "noholder" ELSE "nospan",
          link |-> None, panics |-> Resolves(a)]

\* The lifecycle layer's on_follows_from, its look at the followed span a
\* (spec.md 4.4): a's state holder is looked up by id; found, its context
\* goes into a link; not found (a removed, or a's holder already taken by
\* its close), the declaration is a silent no-op, never a panic.  a is only
\* read.
InnerFollowsFrom(a) ==
    IF Resolves(a) /\ ext[a].otel # None
    THEN [how |-> "found", link |-> Some(HolderCx(ext[a].otel[1])),
          panics |-> FALSE]
    ELSE [how |-> IF Resolves(a) THEN "noholder" ELSE "nospan",
          link |-> None, panics |-> FALSE]

\* FollowedHolder that activates the followed span to read its context
FollowedHolderActivated(otel) ==
    IF otel = None THEN None ELSE Some(Activate(otel[1]))

\* how the lifecycle layer's on_follows_from leaves the state holder of the
\* followed span (spec.md 4.4): it reads the identifying context of
\* whichever variant the holder has and performs no transition
FollowedHolder(otel) == otel

\* on_follows_from (filtered.rs 92-94 delegates), b follows a
OnFollowsFromLookup(t, b, a) ==
    /\ pc[t] = "idle"
    /\ b \in SpanIds /\ a \in SpanIds /\ a # b
    /\ reg[b] = "open" /\ reg[a] # "none"
    /\ nops < MaxOps
    /\ nops' = nops + 1
    /\ deleg' = CallOf("on_follows_from", <<b, a>>)
    /\ Resolves(a) => lock[a] = NoThread
    /\ LET r == InnerFollowsFrom(a)
       IN  IF Times("on_follows_from", <<b, a>>) = 0
           THEN UNCHANGED <<err, pc, cur, fflog>>
           ELSE
           /\ err' = (err \/ r.panics)
           /\ IF r.how = "found"
              THEN /\ pc' = [pc EXCEPT ![t] = "ff_link"]
                   /\ cur' = [cur EXCEPT ![t] =
                         [IdleCur EXCEPT !.span = b, !.other = a,
                                         !.link = r.link]]
                   /\ UNCHANGED fflog
              ELSE /\ fflog' = [fflog EXCEPT ![b] =
                         [follows |-> a, how |-> r.how]]
                   /\ UNCHANGED <<pc, cur>>
    /\ ext' = IF Resolves(a) /\ Times("on_follows_from", <<b, a>>) > 0
              THEN [ext EXCEPT ![a].otel = FollowedHolder(@)]
              ELSE ext
    /\ UNCHANGED <<reg, rparent, stack, exported, extracted,
                   bridgeRes, hist, idgen, lock, fatal, dropped, wide>>

\* the link is recorded against b's Builder or live Context
OnFollowsFromLink(t) ==
    /\ pc[t] = "ff_link"
    /\ lock[cur[t].span] = NoThread
    /\ LET b == cur[t].span
           a == cur[t].other
       IN  /\ ext' = IF ext[b].otel = None THEN ext
                     ELSE [ext EXCEPT ![b].otel =
                             Some([@[1] EXCEPT !.links = @ \cup {cur[t].link[1]}])]
           /\ fflog' = [fflog EXCEPT ![b] =
                 [follows |-> a,
                  how |-> IF ext[b].otel = None THEN "dropped" ELSE "linked"]]
    /\ pc' = [pc EXCEPT ![t] = "idle"]
    /\ cur' = [cur EXCEPT ![t] = IdleCur]
    /\ UNCHANGED <<reg, rparent, stack, exported, extracted, bridgeRes,
                   hist, idgen, nops, err, deleg, lock, fatal, dropped, wide>>

\* ------------------------------------------------------------------ Next
Next ==
    \E t \in Threads :
        \/ OnNewSpan(t)
        \/ \E s \in SpanIds : OnEnter(t, s)
        \/ OnExit(t)
        \/ \E s \in SpanIds : OnRecord(t, s)
        \/ \E hook \in PlainHooks : OnPlainHook(t, hook)
        \/ \E s \in SpanIds : OnIdChange(t, s)
        \/ \E s \in SpanIds, d \in Dispatches : BridgeRequest(t, s, d)
        \/ \E id \in SpanIds, level \in Levels :
               OnEventResolve(t, "explicit", id, level)
        \/ \E kind \in {Contextual, Root}, level \in Levels :
               OnEventResolve(t, kind, 1, level)
        \/ OnEventCount(t)
        \/ OnEventFilter(t)
        \/ \E s \in SpanIds : CloseSpan(t, s)
        \/ \E s \in SpanIds : OnCloseNoHolder(t, s)
        \/ \E s \in SpanIds : OnCloseUnresolved(t, s)
        \/ InnerOnClose(t)
        \/ CloseFinish(t)
        \/ \E b \in SpanIds, a \in SpanIds : OnFollowsFromLookup(t, b, a)
        \/ OnFollowsFromLink(t)

Spec == Init /\ [][Next]_vars

\* ---------------------------------------- the counter at its full width
\* The rest of the model counts at most MaxOps events per span; the steps
\* below are on_event's counting block and on_close's attribute for one
\* span, with the counter at the width the code gives it.
wideFrame == <<reg, rparent, ext, lock, stack, pc, cur, exported, extracted,
               bridgeRes, fflog, hist, idgen, nops, deleg, err, dropped,
               fatal>>

\* the span has counted c events so far, c at least 1: lines 109-113 have
\* run c times
WideAfter(c) ==
    /\ wide = NoWide
    /\ c # <<0, 0>>
    /\ wide' = [NoWide EXCEPT !.count = Some(c),
                              !.events = <<c[1], c[2], 0>>]
    /\ UNCHANGED wideFrame

\* on_event, lines 106-114: one more event is counted
WideCount ==
    /\ ~wide.panicked /\ wide.attr = None
    /\ wide.steps < MaxCountSteps
    /\ \E o \in CountEventU32(wide.count) :
          wide' = [wide EXCEPT
                      !.count = IF o.panic THEN @ ELSE Some(o.value),
                      !.events = Succ3(@),
                      !.steps = @ + 1,
                      !.panicked = o.panic]
    /\ UNCHANGED wideFrame

\* on_close, lines 137-142: the counter is removed and becomes the
\* attribute's i64
WideClose ==
    /\ ~wide.panicked /\ wide.attr = None
    /\ wide' = [wide EXCEPT
                    !.count = None,
                    !.attr = Some(I64FromU32(TakeCountU32(wide.count)))]
    /\ UNCHANGED wideFrame

NextCount ==
    \/ \E lo \in EdgeLimbs, hi \in EdgeLimbs : WideAfter(<<lo, hi>>)
    \/ WideCount
    \/ WideClose

SpecCount == Init /\ [][NextCount]_vars

\* the rest of a handler a thread has started: a handler is straight-line
\* code on its caller's thread, and a running thread keeps being scheduled
Continue(t) ==
    \/ OnEventCount(t)
    \/ OnEventFilter(t)
    \/ InnerOnClose(t)
    \/ CloseFinish(t)
    \/ OnFollowsFromLink(t)

SpecFair == Init /\ [][Next]_vars /\ \A t \in Threads : WF_vars(Continue(t))

\* ---------------------------------------------------------------- claims
\* the one finished record exported for span s
Exported(s) == exported[s][1]

\* C1: for every span, the event-count attribute written at close equals the
\* number of on_event calls that resolved to the span while it was open,
\* whatever the filter answered.  (Stated as the claim has it; an event that
\* resolved its span right before the close took the counter is not in it.)
C1_CountIsDeliveredEvents ==
    \A s \in SpanIds :
        exported[s] # <<>> => Exported(s).attrs = <<hist[s].delivered>>

\* C2: of the n events delivered to a span while it was open, k of which
\* fail the filter, exactly n-k are recorded as span events and the count
\* attribute at close is n.  (Stated as the claim has it.)
C2_ForwardedAndCounted ==
    \A s \in SpanIds :
        exported[s] # <<>> =>
            /\ Exported(s).events = hist[s].deliveredOk
            /\ Len(Exported(s).attrs) = 1
            /\ Exported(s).attrs[1] = hist[s].delivered

\* C3: when the filter is evaluated (and the wrapped on_event runs) for an
\* event, the handler has already incremented the span's counter, the
\* counter of a span still open includes this event, and the filter step of
\* a rejected event leaves the counter as it is.
C3_FilterSeesCount ==
    \A t \in Threads :
        pc[t] = "ev_filter" =>
            /\ cur[t].ticket >= 1
            /\ reg[cur[t].span] = "open" =>
                  /\ ext[cur[t].span].count # None
                  /\ ext[cur[t].span].count[1] >= cur[t].ticket

C3_RejectedKeepsCount ==
    \A t \in Threads :
        (pc[t] = "ev_filter" /\ pc'[t] # "ev_filter"
            /\ ~FilterEnabled(cur[t].level))
        => ext'[cur[t].span] = ext[cur[t].span]

C3_CountedBeforeFilter ==
    [](C3_FilterSeesCount) /\ [][C3_RejectedKeepsCount]_vars

\* a second event of a span, rejected by the filter, is at the filter with
\* the counter at 2
C3_Witness ==
    \E t \in Threads :
        /\ pc[t] = "ev_filter"
        /\ ~FilterEnabled(cur[t].level)
        /\ cur[t].ticket = 2
        /\ ext[cur[t].span].count = Some(2)

\* C4: a span's context is built from its Builder at most once, exactly
\* once when a context was handed out; every context get_otel_context (or
\* an enter) handed out for the span has the trace id and span id of the
\* span's state holder, so all of them are identical.
C4_BuiltOnceSameIds ==
    \A s \in SpanIds :
        /\ hist[s].builds <= 1
        /\ extracted[s] # {} => hist[s].builds = 1
        /\ Cardinality(extracted[s]) <= 1
        /\ ext[s].otel # None =>
               extracted[s] \subseteq {HolderCx(ext[s].otel[1])}

\* the bridge built the context of a span nobody entered, and a later call
\* for the same span returned a context without building
C4_Witness ==
    \E s \in SpanIds :
        /\ bridgeRes.span = s /\ bridgeRes.res # None
        /\ bridgeRes.built = 0
        /\ ~hist[s].entered
        /\ hist[s].builds = 1
        /\ ext[s].otel # None /\ ext[s].otel[1].state = "Context"

\* C5: get_otel_context returns a value exactly when the dispatch has the
\* capability and the span has a state holder; when it returns none it has
\* left the extension slot as it was, and no handler has panicked.
C5_NoneWithoutCapabilityOrHolder ==
    bridgeRes.span # 0 =>
        /\ (bridgeRes.res # None) <=> (bridgeRes.cap /\ bridgeRes.had)
        /\ bridgeRes.res = None => bridgeRes.kept
        /\ ~err

\* a call without the capability for a span whose holder is a Builder:
\* nothing returned, the holder still a Builder
C5_Witness ==
    /\ bridgeRes.span # 0
    /\ ~bridgeRes.cap /\ bridgeRes.had
    /\ bridgeRes.res = None
    /\ ext[bridgeRes.span].otel # None
    /\ ext[bridgeRes.span].otel[1].state = "Builder"

\* C6: no step takes a state holder from the Context variant to the Builder
\* variant: a holder that is a Context is a Context after every step that
\* leaves it in the slot.
C6_NeverBackToBuilder ==
    [][\A s \in SpanIds :
          (ext[s].otel # None /\ ext[s].otel[1].state = "Context")
          => (ext'[s].otel = None \/ ext'[s].otel[1].state = "Context")]_vars

\* a Context that took an event, then had the count written into it
C6_Witness ==
    \E s \in SpanIds :
        /\ reg[s] = "closing"
        /\ ext[s].otel # None
        /\ ext[s].otel[1].state = "Context"
        /\ ext[s].otel[1].events = 1
        /\ ext[s].otel[1].attrs = <<1>>

\* C7: every context a separate layer obtained for a span is valid and has
\* the span id of the record exported for that span; a span that was
\* entered has exactly one such context.
C7_ExtractedMatchesExport ==
    \A s \in SpanIds :
        /\ \A cx \in extracted[s] :
              /\ IsValid(cx)
              /\ exported[s] # <<>> => cx.span = Exported(s).span
        /\ hist[s].entered => Cardinality(extracted[s]) = 1

\* an entered span has been exported and a context was obtained for it
C7_Witness ==
    \E s \in SpanIds :
        /\ hist[s].entered
        /\ exported[s] # <<>>
        /\ \E cx \in extracted[s] : cx.span = Exported(s).span

\* the context of span p: its holder's, or its record's once exported
SpanCx(p) ==
    IF ext[p].otel # None THEN HolderCx(ext[p].otel[1])
    ELSE IF exported[p] # <<>> THEN HolderCx(Exported(p))
    ELSE InvalidCx

\* C8: a span created while another span was entered is exported with that
\* span's trace id and with that span's span id as its parent span id.
C8_ChildSharesTrace ==
    \A c \in SpanIds :
        (rparent[c] # 0 /\ exported[c] # <<>>) =>
            /\ IsValid(SpanCx(rparent[c]))
            /\ Exported(c).trace = SpanCx(rparent[c]).trace
            /\ Exported(c).parent = SpanCx(rparent[c]).span
            /\ Exported(c).span # SpanCx(rparent[c]).span

\* a child and its parent have both been exported
C8_Witness ==
    \E c \in SpanIds :
        /\ rparent[c] # 0
        /\ exported[c] # <<>>
        /\ exported[rparent[c]] # <<>>
        /\ Exported(c).trace = Exported(rparent[c]).trace

\* C9: a follows-from declaration that found the followed span A removed
\* raises no error; A was exported exactly once, with valid ids; B, once
\* closed, is exported exactly once, with its own valid ids; and a record
\* once exported is never changed.
C9_LinkToRemovedState ==
    /\ ~err
    /\ \A b \in SpanIds :
          fflog[b].how = "nospan" =>
              /\ reg[fflog[b].follows] = "removed"
              /\ Len(exported[fflog[b].follows]) = 1
              /\ IsValid(Exported(fflog[b].follows))
              /\ reg[b] = "removed" =>
                    /\ Len(exported[b]) = 1
                    /\ IsValid(Exported(b))
                    /\ Exported(b).span # Exported(fflog[b].follows).span

C9_RecordsKept ==
    \A s \in SpanIds : exported[s] # <<>> => exported'[s] = exported[s]

C9_FollowsFromClosedIsNoOp ==
    [](C9_LinkToRemovedState) /\ [][C9_RecordsKept]_vars

\* A closed, B declared to follow it, B closed: two records
C9_Witness ==
    \E b \in SpanIds :
        /\ fflog[b].how = "nospan"
        /\ reg[b] = "removed"
        /\ Len(exported[b]) = 1
        /\ Len(exported[fflog[b].follows]) = 1
        /\ ~err

\* C10: no interleaving of a close of A and a follows-from declaration
\* naming A panics; a declaration that found A in the registry without its
\* state holder met A after its record was handed over, and did nothing.
C10_CloseRacesFollowsFrom ==
    /\ ~err
    /\ \A b \in SpanIds :
          fflog[b].how = "noholder" =>
              /\ reg[fflog[b].follows] \in {"closing", "removed"}
              /\ Len(exported[fflog[b].follows]) = 1
    /\ \A t \in Threads :
          pc[t] = "ff_link" => cur[t].link # None /\ IsValid(cur[t].link[1])

\* B's declaration found A in the registry with its holder gone, while the
\* closing thread is still in the step after the lifecycle layer's on_close
C10_Witness ==
    \E b \in SpanIds, t \in Threads :
        /\ fflog[b].how = "noholder"
        /\ reg[fflog[b].follows] = "closing"
        /\ pc[t] = "cl_finish" /\ cur[t].span = fflog[b].follows
        /\ ~err

\* C11: the exporter has exactly the closed spans: a span that is not yet
\* created or still open has no record, a span whose close has been
\* delegated to the lifecycle layer has exactly one, and so has every span
\* the registry has removed.
C11_ExportedAreTheClosed ==
    \A s \in SpanIds :
        /\ Len(exported[s]) <= 1
        /\ reg[s] \in {"none", "open"} => exported[s] = <<>>
        /\ reg[s] = "removed" => Len(exported[s]) = 1
        /\ reg[s] = "closing" =>
              (Len(exported[s]) = 1 <=>
                  \E t \in Threads : pc[t] = "cl_finish" /\ cur[t].span = s)
        /\ exported[s] # <<>> =>
              \A r \in SpanIds \ {s} :
                  exported[r] # <<>> => Exported(r).span # Exported(s).span

\* one span closed and exported, another still open and not exported
C11_Witness ==
    \E s, r \in SpanIds :
        /\ reg[s] = "removed" /\ Len(exported[s]) = 1
        /\ reg[r] = "open" /\ exported[r] = <<>>
        /\ hist[r].entered /\ hist[s].delivered > 0

\* C12: a pass-through hook of the filter layer calls the same hook of the
\* wrapped layer exactly once, with the arguments it was given, and nothing
\* else; and a counter changes only in a step of on_event or of a close,
\* never in a step of a pass-through hook.
C12_SameHookOnce ==
    deleg.hook # "none" =>
        deleg.calls = <<[hook |-> deleg.hook, args |-> deleg.args]>>

C12_HooksLeaveCounter ==
    \A s \in SpanIds :
        ext'[s].count # ext[s].count =>
            \E t \in Threads :
                \/ pc[t] = "ev_count" /\ pc'[t] # "ev_count"
                \/ pc[t] = "idle" /\ pc'[t] = "cl_inner"
                \/ pc[t] = "cl_finish" /\ pc'[t] = "idle"

C12_HooksPassThrough ==
    [](C12_SameHookOnce) /\ [][C12_HooksLeaveCounter]_vars

\* on_record was called for a span that has counted an event: the wrapped
\* layer recorded the attribute, the counter is as it was
C12_Witness ==
    /\ deleg.hook = "on_record"
    /\ LET s == deleg.args[1]
       IN  /\ ext[s].otel # None
           /\ ext[s].otel[1].nattrs = 1
           /\ ext[s].count = Some(1)

\* C13: downcast_raw answers with the filter layer for its own type and
\* with the wrapped layer's answer for every other type; so the bridge
\* capability is found through the pipeline with the filter layer, and
\* get_otel_context gives for every span the result it gives with the
\* lifecycle layer alone.
C13_CapabilityThroughFilter ==
    /\ DowncastRaw("FilteredOpenTelemetryLayer") = Some("self")
    /\ \A id \in TypeIds \ {"FilteredOpenTelemetryLayer"} :
          DowncastRaw(id) = InnerDowncastRaw(id)
    /\ HasCapability("filtered")
    /\ \A s \in SpanIds :
          GetOtelContext(ext[s].otel, HasCapability("filtered"))
              = GetOtelContext(ext[s].otel, HasCapability("bare"))
    /\ (bridgeRes.via = "filtered" /\ bridgeRes.had) => bridgeRes.res # None

\* get_otel_context, given the pipeline with the filter layer, built and
\* returned the context of a span
C13_Witness ==
    /\ bridgeRes.via = "filtered"
    /\ bridgeRes.res # None
    /\ bridgeRes.built = 1
    /\ IsValid(bridgeRes.res[1])

\* C14: a span that received no event has no counter, and once on_close has
\* run for a span no counter is left in its extension slot, also when an
\* event is delivered while the span closes.  (Stated as the claim has it;
\* an on_event that counts after on_close took the counter puts one back.)
C14_NoCounterAfterClose ==
    \A s \in SpanIds :
        /\ (reg[s] = "open" /\ hist[s].delivered = 0) => ext[s].count = None
        /\ reg[s] \in {"closing", "removed"} => ext[s].count = None

\* C15: an open span has a state holder; the holder of a span that was
\* never entered and for which the bridge never handed out a context is in
\* the Builder variant and no context was built for it, from its creation
\* up to and including the steps of its close.
C15_BuilderUntilAsked ==
    \A s \in SpanIds :
        /\ reg[s] = "open" => ext[s].otel # None
        /\ (ext[s].otel # None /\ ~hist[s].entered /\ extracted[s] = {}) =>
              /\ ext[s].otel[1].state = "Builder"
              /\ hist[s].builds = 0

\* a span that took an event and was never entered is closing, its holder
\* a Builder with the count written into it
C15_Witness ==
    \E s \in SpanIds :
        /\ reg[s] = "closing"
        /\ ~hist[s].entered /\ extracted[s] = {}
        /\ ext[s].otel # None
        /\ ext[s].otel[1].state = "Builder"
        /\ ext[s].otel[1].attrs = <<1>>

\* C16: the filter layer never calls the filter or the wrapped layer while
\* it holds a span's extension lock.  Where on_event evaluates the filter
\* and forwards the event, and where on_close delegates to the wrapped
\* layer, the span's lock is free, so the call-out can take the same lock
\* and the step is enabled: no self-deadlock.  At the close call-out the
\* attribute has already been written to the holder under the lock.
C16_NoLockAcrossCallOut ==
    \A t \in Threads :
        /\ pc[t] \in {"ev_filter", "cl_inner"} =>
              lock[cur[t].span] = NoThread
        /\ pc[t] = "ev_filter" => ENABLED OnEventFilter(t)
        /\ pc[t] = "cl_inner" =>
              /\ ENABLED InnerOnClose(t)
              /\ ext[cur[t].span].otel # None =>
                    ext[cur[t].span].otel[1].attrs # <<>>

\* one thread is about to delegate the close of a span whose attribute is
\* already written while another is about to forward an event to the same
\* span
C16_Witness ==
    \E t, u \in Threads :
        /\ pc[t] = "cl_inner" /\ pc[u] = "ev_filter"
        /\ cur[t].span = cur[u].span
        /\ ext[cur[t].span].otel # None
        /\ ext[cur[t].span].otel[1].attrs # <<>>

\* C17: the step of the filter layer's on_close that starts a span's close
\* appends the value of the span's counter, 0 when it has none, as one
\* attribute to the span's holder, leaves the holder's variant and every
\* other field as they were, empties the counter and exports nothing; the
\* record is exported only by the later delegated close, from a holder that
\* carries exactly that one attribute, which the record then contains; a
\* span no event was delivered to is exported with the attribute 0.
C17_AttributeThenClose ==
    [][\A s \in SpanIds :
          /\ (reg[s] = "open" /\ reg'[s] = "closing") =>
                /\ exported'[s] = exported[s]
                /\ ext'[s].count = None
                /\ ext[s].otel # None
                /\ ext'[s].otel =
                      Some([ext[s].otel[1] EXCEPT !.attrs =
                               Append(@, IF ext[s].count = None THEN 0
                                         ELSE ext[s].count[1])])
          /\ exported'[s] # exported[s] =>
                /\ reg[s] = "closing" /\ ext[s].otel # None
                /\ Len(ext[s].otel[1].attrs) = 1
                /\ Len(exported'[s]) = Len(exported[s]) + 1
                /\ exported'[s][Len(exported'[s])].attrs =
                      ext[s].otel[1].attrs
                /\ hist[s].delivered = 0 =>
                      exported'[s][Len(exported'[s])].attrs = <<0>>
      ]_vars

\* one span was exported from a pending holder with the attribute 0, the
\* other from a live context with the count of its event
C17_Witness ==
    \E s, r \in SpanIds :
        /\ exported[s] # <<>> /\ ~hist[s].entered /\ extracted[s] = {}
        /\ Exported(s).attrs = <<0>> /\ hist[s].delivered = 0
        /\ exported[r] # <<>> /\ hist[r].entered
        /\ Exported(r).attrs = <<1>> /\ hist[r].delivered = 1

\* C18: a declaration "b follows from a" leaves a as it was: neither of its
\* two steps changes a's state holder (variant, attributes, identifiers,
\* events, links), a's counter, a's place in the registry or any exported
\* record; the only change to any span's data is that b's holder may gain
\* links.
C18_FollowedSpanOnlyRead ==
    [][\A t \in Threads :
          /\ \A b, a \in SpanIds :
                OnFollowsFromLookup(t, b, a) =>
                    /\ ext' = ext
                    /\ reg' = reg /\ exported' = exported
          /\ OnFollowsFromLink(t) =>
                LET b == cur[t].span
                    a == cur[t].other
                IN  /\ a # b /\ ext'[a] = ext[a]
                    /\ \A s \in SpanIds \ {b} : ext'[s] = ext[s]
                    /\ reg' = reg /\ exported' = exported
                    /\ ext'[b].count = ext[b].count
                    /\ ext[b].otel = None => ext'[b].otel = None
                    /\ ext[b].otel # None =>
                          /\ ext'[b].otel # None
                          /\ ext[b].otel[1].links \subseteq
                                ext'[b].otel[1].links
                          /\ ext'[b].otel[1] =
                                [ext[b].otel[1] EXCEPT
                                    !.links = ext'[b].otel[1].links]
      ]_vars

\* b carries a link to a, and a, never entered and still open, is still a
\* pending Builder without attributes
C18_Witness ==
    \E b \in SpanIds :
        /\ fflog[b].how = "linked"
        /\ reg[fflog[b].follows] = "open"
        /\ ext[fflog[b].follows].otel # None
        /\ ext[fflog[b].follows].otel[1].state = "Builder"
        /\ ext[fflog[b].follows].otel[1].attrs = <<>>
        /\ ext[b].otel # None
        /\ HolderCx(ext[fflog[b].follows].otel[1]) \in ext[b].otel[1].links

\* the links b carries: its holder's, or its record's once exported
LinksOf(b) ==
    IF ext[b].otel # None THEN ext[b].otel[1].links
    ELSE IF exported[b] # <<>> THEN Exported(b).links
    ELSE {}

\* C19: however a close of A and a declaration "B follows from A"
\* interleave, every link B carries, and every link a declaration in
\* progress is about to record, is valid and has the trace id and span id of
\* the context of a created span other than B; a declaration that recorded
\* a link left on B the link to the span it named, and one that recorded
\* none met a span whose state holder its close had already taken.
C19_LinkIsFollowedContext ==
    /\ \A b \in SpanIds :
          /\ \A l \in LinksOf(b) :
                /\ IsValid(l)
                /\ \E a \in SpanIds \ {b} :
                      /\ reg[a] # "none"
                      /\ l.trace = SpanCx(a).trace
                      /\ l.span = SpanCx(a).span
          /\ fflog[b].how = "linked" =>
                /\ reg[fflog[b].follows] # "none"
                /\ SpanCx(fflog[b].follows) \in LinksOf(b)
          /\ fflog[b].how \in {"nospan", "noholder"} =>
                /\ reg[fflog[b].follows] \in {"closing", "removed"}
                /\ ext[fflog[b].follows].otel = None
    /\ \A t \in Threads :
          pc[t] = "ff_link" =>
              /\ cur[t].link = Some(SpanCx(cur[t].other))
              /\ IsValid(cur[t].link[1])

\* the declaration found A's holder, A was then closed and removed, and the
\* link about to be recorded on B has the ids of A's exported record
C19_Witness ==
    \E t \in Threads :
        /\ pc[t] = "ff_link"
        /\ reg[cur[t].other] = "removed"
        /\ exported[cur[t].other] # <<>>
        /\ cur[t].link = Some(HolderCx(Exported(cur[t].other)))

\* a thread inside a handler can take the handler's next step now
CanContinue(t) ==
    /\ pc[t] = "ev_count" => ENABLED OnEventCount(t)
    /\ pc[t] = "ev_filter" => ENABLED OnEventFilter(t)
    /\ pc[t] = "cl_inner" => ENABLED InnerOnClose(t)
    /\ pc[t] = "cl_finish" => ENABLED CloseFinish(t)
    /\ pc[t] = "ff_link" => ENABLED OnFollowsFromLink(t)

\* C20: no thread ever waits: a thread inside a handler can always take the
\* handler's next step, whatever state the span is in and whatever the
\* other thread is doing, no thread holds the locks of two spans, no
\* declaration of a link panics, and, threads being scheduled fairly, every
\* handler a thread has started returns.
C20_EveryOperationFinishes ==
    /\ [](\A t \in Threads :
             /\ CanContinue(t)
             /\ Cardinality({s \in SpanIds : lock[s] = t}) <= 1)
    /\ [](~err)
    /\ \A t \in Threads : (pc[t] # "idle") ~> (pc[t] = "idle")

\* a declaration that found A is about to link while the other thread is in
\* the middle of closing A
C20_Witness ==
    \E t, u \in Threads :
        /\ pc[t] = "ff_link" /\ pc[u] = "cl_inner"
        /\ cur[u].span = cur[t].other
        /\ lock[cur[u].span] = NoThread

\* the deliveries to span s that have resolved it and not yet counted
Uncounted(s) == {t \in Threads : pc[t] = "ev_count" /\ cur[t].span = s}

\* C21: while a span is open no increment is lost, however the threads'
\* deliveries interleave: its counter (0 when it has none) plus the
\* deliveries that resolved the span and have not counted yet is the number
\* of events delivered to it, so once every delivery has counted the
\* counter is the number of events all threads delivered.
C21_NoLostIncrement ==
    \A s \in SpanIds :
        reg[s] = "open" =>
            TakeCount(ext[s].count) + Cardinality(Uncounted(s))
                = hist[s].delivered

\* both threads have delivered an event to the same open span, both have
\* counted and neither has returned; the counter is 2
C21_Witness ==
    \E s \in SpanIds :
        /\ reg[s] = "open"
        /\ ext[s].count = Some(2)
        /\ hist[s].delivered = 2
        /\ \A t \in Threads : pc[t] = "ev_filter" /\ cur[t].span = s

NoSpanFor(t, kind, id) ==
    \/ kind = "explicit" /\ ~Resolves(id)
    \/ kind = Contextual /\ stack[t] = <<>>
    \/ kind = Root

\* C23: an on_event for an event that names no resolvable span returns at
\* once, whatever the event's level: no counter and no state holder changes,
\* no history is counted, and the thread enters neither the counting step
\* nor the step that evaluates the filter and calls the wrapped on_event.
C23_UnresolvedEventIgnored ==
    [][\A t \in Threads, id \in SpanIds, level \in Levels,
          kind \in {"explicit", Contextual, Root} :
          (NoSpanFor(t, kind, id) /\ OnEventResolve(t, kind, id, level)) =>
              /\ ext' = ext /\ lock' = lock
              /\ hist' = hist /\ exported' = exported
              /\ pc' = pc /\ cur' = cur
              /\ dropped' = [kind |-> kind, level |-> level]
      ]_vars

\* a root event the filter would approve was delivered while both threads
\* were inside a span; no span has a counter or a span event
C23_Witness ==
    /\ dropped = [kind |-> Root, level |-> "INFO"]
    /\ FilterEnabled(dropped.level)
    /\ \A t \in Threads : stack[t] # <<>> /\ pc[t] = "idle"
    /\ \A s \in SpanIds :
          /\ ext[s].count = None
          /\ ext[s].otel # None => ext[s].otel[1].events = 0

\* C24: an on_close of the filter layer for a span that resolves and has
\* no state holder leaves the span without a counter and without a state
\* holder, changes no other span's slot, writes no attribute (nothing is
\* exported, no record changes) and goes on to delegate the close; the
\* delegated close of a span without a holder exports nothing and is made
\* once, the handler then going on to its end.
C24_CloseWithoutHolder ==
    [][\A t \in Threads :
          /\ \A s \in SpanIds :
                OnCloseNoHolder(t, s) =>
                    /\ ext'[s] = EmptyExt
                    /\ \A r \in SpanIds \ {s} : ext'[r] = ext[r]
                    /\ exported' = exported
                    /\ pc'[t] = "cl_inner" /\ cur'[t].span = s
                    /\ fatal' = fatal
          /\ (InnerOnClose(t) /\ ext[cur[t].span].otel = None) =>
                /\ ext' = ext
                /\ exported' = exported
                /\ pc'[t] = "cl_finish"
      ]_vars

\* the span's first close exported it with the count 0, an event that had
\* resolved the span before then left a counter behind, and a further close
\* has removed that counter and is about to be delegated
C24_Witness ==
    \E t, u \in Threads, s \in SpanIds :
        /\ pc[t] = "cl_finish" /\ cur[t].span = s
        /\ pc[u] = "cl_inner" /\ cur[u].span = s
        /\ hist[s].delivered = 1
        /\ Len(exported[s]) = 1 /\ Exported(s).attrs = <<0>>
        /\ ext[s] = EmptyExt

\* a < b for two u32 values
U32Less(a, b) == a[2] < b[2] \/ (a[2] = b[2] /\ a[1] < b[1])

\* what C25 says of a state: with no event counted there is no counter;
\* after the k-th counted event, k below 2^32, the counter is k, so 1 after
\* the first; the attribute written at close is an i64 that is not negative
\* and, for fewer than 2^32 events, is the number of events counted
C25_CounterIsEventNumber ==
    /\ (wide.events = <<0, 0, 0>> /\ wide.attr = None) => wide.count = None
    /\ (wide.events # <<0, 0, 0>> /\ wide.events[3] = 0
          /\ wide.attr = None) =>
          /\ ~wide.panicked
          /\ wide.count = Some(<<wide.events[1], wide.events[2]>>)
    /\ wide.attr # None =>
          /\ wide.count = None
          /\ wide.attr[1][4] < LimbBase \div 2
          /\ wide.events[3] = 0 =>
                wide.attr[1] = <<wide.events[1], wide.events[2], 0, 0>>

\* C25: the event counter is a u32 that is 1 after the first counted event
\* and k after the k-th for every k below 2^32, each counted event making
\* it greater than it was, never smaller; the attribute written at close is
\* that number as an i64, zero-extended, hence never negative.
C25_CounterWidth ==
    /\ [](C25_CounterIsEventNumber)
    /\ [][(wide.count # None /\ wide'.count # None
             /\ wide'.events[3] = 0) =>
             (wide'.count = wide.count
                \/ U32Less(wide.count[1], wide'.count[1]))]_vars

\* the counter reached u32::MAX by counting an event and the span was
\* closed: the attribute is 4294967295
C25_Witness ==
    /\ wide.steps >= 1
    /\ wide.events = <<LimbBase - 1, LimbBase - 1, 0>>
    /\ wide.attr = Some(<<LimbBase - 1, LimbBase - 1, 0, 0>>)

====
